---- MODULE Spec2Model ----
(***************************************************************************)
(* Reference-count bridge of the cef crate (src/src/refcounted.rs).        *)
(*                                                                         *)
(* A composite RefCounted<C> = { cefobj: C, object: C::Wrapper } lives in  *)
(* an Arc; the Arc's strong count is the foreign reference count.  The     *)
(* header of cefobj carries four function pointers (add_ref, release,      *)
(* has_one_ref, has_at_least_one_ref) that rebuild a temporary Arc from    *)
(* the raw pointer.  RefCountedPtr<C> is the host-side owning handle.      *)
(***************************************************************************)
EXTENDS Integers, Sequences, FiniteSets, Bags, TLC

(* ------------------------------ bounds --------------------------------- *)
\* number of composite allocations the model can create
MaxComp == 1
\* number of threads that can be inside an entry point at the same time
MaxThreads == 2
\* number of increments (add_ref calls) performed on one composite
MaxAdds == 2
\* stress run: worker threads perform StressPairs clone/drop pairs each
StressPairs == 2
\* number of RefCountedPtr values a caller creates, one slot each
MaxHandles == 3
\* number of browser objects the foreign side creates
MaxForeign == 2
\* number of times a RefCountedPtrCache wraps again after its creation
MaxRewraps == 1

Comps == 1..MaxComp
\* every address a composite can get: those of Comps, and those of the
\* composites a RefCountedPtrCache allocates when it wraps again
AllComps == 1..(MaxComp + MaxRewraps)
\* the addresses of the composites one RefCountedPtrCache builds: the first
\* by new, one more each time it wraps again
CacheComps == 1..(MaxRewraps + 1)
\* identities of the payloads' backing objects: the addresses the allocator
\* places an Arc<Inner> at; an address is handed out again once the object
\* at it is freed, so two are enough for any number of payloads
Idents == {1, 2}
\* worker threads of the stress run
Workers == 1..MaxThreads
\* the RefCountedPtr values of a caller, in the order they are created
HandleIds == 1..MaxHandles
\* cef_browser_t objects owned by the foreign side
ForeignObjs == 1..MaxForeign

VARIABLES
    alloc,      \* alloc[c]: "none" (not yet created), "live", "freed"
    strong,     \* strong[c]: Arc strong count of the composite
    hdr,        \* hdr[c]: the cef_base_ref_counted_t header of cefobj
    teardown,   \* teardown[c]: how many times the payload was dropped
    handles,    \* handles[c]: live RefCountedPtr values pointing at c
    raws,       \* raws[c]: units held as raw pointers (foreign side, into_raw)
    inflight,   \* bag of release calls between their count read and their drop:
                \* [c, k, ret, who], k = "handle" (Drop for RefCountedPtr) or
                \* "raw" (foreign call), ret = the c_int already computed from
                \* what Arc::strong_count returned
    last,       \* the c_int the most recent call returned: [op, ret]; NoCall
                \* when the most recent call returned no c_int
    adds,       \* adds[c]: completed add_ref calls on c
    rels,       \* rels[c]: completed release calls on c
    log,        \* log[c]: history of c while it is a raw-pointer-only, sequential one
    stress,     \* stress run bookkeeping: [stage, base, iter, ph]
    hv,         \* the RefCountedPtr values of a caller, one by one:
                \* [slot, held, res]
    cache,      \* a RefCountedPtrCache and its payloads:
                \* [st, ptr, arc, ret, inner, user, object, given]
    host,       \* browser_host.rs: foreign objects and the last foreign call
    ext,        \* extension.rs: an Extension handle and its last method call
    cb          \* browser_host.rs: one download_image call and its callback

vars == <<alloc, strong, hdr, teardown, handles, raws, inflight, last, adds,
          rels, log, stress, hv, cache, host, ext, cb>>

\* the variables of the reference-count bridge itself
core == <<alloc, strong, hdr, teardown, handles, raws, inflight, last, adds,
          rels, log>>
\* what a run that uses one part of the program leaves alone
offPlain == <<stress, hv, cache, host, ext, cb>>
offStress == <<hv, cache, host, ext, cb>>
offHandle == <<stress, cache, host, ext, cb>>
offCache == <<stress, hv, host, ext, cb>>
offHost == <<stress, cache, ext, cb>>
offExt == <<core, stress, hv, cache, host, cb>>
offCallback == <<stress, hv, cache, host, ext>>

(* ------------------------- the header record --------------------------- *)
\* values a function-pointer slot of a record template can hold
SlotValues == {"null", "foreign"}
\* values the size field of a record template can hold
SizeValues == {"zeroed", "stale"}

\* record templates handed to RefCounted::new: any header content
Templates ==
    [size : SizeValues, add_ref : SlotValues, release : SlotValues,
     has_one_ref : SlotValues, has_at_least_one_ref : SlotValues]

ZeroedHeader ==
    [size |-> "zeroed", add_ref |-> "null", release |-> "null",
     has_one_ref |-> "null", has_at_least_one_ref |-> "null"]

\* a new() that fills in the function pointers but keeps the template's size
InstallHeaderKeepSize(template) ==
    [size |-> template.size,
     add_ref |-> "Self::add_ref",
     release |-> "Self::release",
     has_one_ref |-> "Self::has_one_ref",
     has_at_least_one_ref |-> "Self::has_at_least_one_ref"]

\* *cefobj.base_mut() = cef_base_ref_counted_t { size, add_ref, ... }
InstallHeader(template) ==
    [size |-> "size_of_C",
     add_ref |-> "Self::add_ref",
     release |-> "Self::release",
     has_one_ref |-> "Self::has_one_ref",
     has_at_least_one_ref |-> "Self::has_at_least_one_ref"]

(* --------------------------- Arc primitives ---------------------------- *)
\* Arc::new: the strong count of a fresh Arc
ArcNew == 1

\* a to_arc without ManuallyDrop: the temporary Arc is dropped on expiry
TempExpireDrops(n) == n - 1

\* to_arc: ManuallyDrop<Arc<Self>>; when the temporary goes out of scope
\* nothing is dropped, so the count it leaves behind is the count it found
TempExpire(n) == n

\* a non-atomic increment whose update is lost
ArcCloneLost(n) == n
\* an increment that also keeps the unit of the temporary borrow
ArcCloneTwice(n) == n + 2

\* this.clone() inside add_ref: atomic fetch_add(1), the clone is ManuallyDrop
ArcClone(n) == n + 1

\* a release that forgets the Arc instead of dropping it
ArcDropLost(n) == n

\* drop of the Arc taken by ManuallyDrop::into_inner: atomic fetch_sub(1)
ArcDrop(n) == n - 1

\* a teardown decided on the count after the decrement instead of before it
ArcFreesOffByOne(prev) == prev = 2
\* a teardown that also runs while another unit is outstanding
ArcFreesEarly(prev) == prev <= 2

\* Arc's drop runs drop_slow (drops the payload, frees the block) iff the
\* fetch_sub returned 1
ArcFrees(prev) == prev = 1

\* a release that reports "still owned" whenever it saw any unit
ReleaseResultLoose(n) == IF n >= 1 THEN 1 ELSE 0

\* release's return value, computed from the count read BEFORE the drop
ReleaseResult(n) == IF n > 1 THEN 1 ELSE 0

\* a has_one_ref that answers has_at_least_one_ref's question
HasOneRefLoose(n) == IF n >= 1 THEN 1 ELSE 0

\* has_one_ref / has_at_least_one_ref return values
HasOneRefResult(n) == IF n = 1 THEN 1 ELSE 0
HasAtLeastOneRefResult(n) == IF n >= 1 THEN 1 ELSE 0

\* an into_raw that lets the handle's Drop run
ForgetDrops(n) == n - 1

\* std::mem::forget(self) in into_raw: Drop does not run, the count stays
Forget(n) == n

(* ------------------------------ pointers ------------------------------- *)
\* An address is the block it points into and the field of the block it
\* points at.  RefCounted<C> is #[repr(C)] with cefobj first and the header
\* is the first field of cefobj: the composite, cefobj and the header share
\* one address, so the pointer casts between them keep the address.
NullPtr == [blk |-> 0, field |-> "cefobj"]

\* an into_raw that yields the address after the composite
CompositePtrNext(c) == [blk |-> c + 1, field |-> "cefobj"]

\* Arc::into_raw(Arc::new(Self { cefobj, object })) as *mut Self
CompositePtr(c) == [blk |-> c, field |-> "cefobj"]

\* a payload borrow that stays at the address of the record
WrapperOfRecord(p) == p

\* RefCounted::wrapper(ptr): &(*(ptr as *const C as *const Self)).object
WrapperOf(p) == [blk |-> p.blk, field |-> "object"]

\* the address of a record the foreign side allocated
ForeignPtr(f) == [blk |-> 0 - f, field |-> "cefobj"]

\* NonNull::new_unchecked(ptr): the pointer is taken as it is.  On the null
\* pointer the call is undefined behaviour: a build without the debug
\* precondition check yields a NonNull holding null, a build with the check
\* aborts the process.
NewUncheckedOutcomes(p) ==
    IF p = NullPtr THEN {"null_handle", "abort"} ELSE {"handle"}

\* an identity test that never recognises the cached payload
ArcPtrEqNever(a, b) == FALSE

\* an identity test that compares what the two backing objects hold
ArcPtrEqByContents(a, b) == cache.inner[a].val = cache.inner[b].val

\* Arc::ptr_eq(&self.arc, wrapper.borrow()): same backing object
ArcPtrEq(a, b) == a = b

\* a null check that lets every pointer through
NonNullNewUnchecked(p) == [some |-> TRUE, cef |-> p]

\* NonNull::new(ptr): None for the null pointer, Some(ptr) otherwise
NonNullNew(p) == [some |-> p # NullPtr, cef |-> p]

(* ------------------------------ helpers -------------------------------- *)
\* release calls in flight on composite c that consume a unit of kind k
InFlightOn(c, k) ==
    BagCardinality([r \in {x \in BagToSet(inflight) : x.c = c /\ x.k = k}
                      |-> CopiesIn(r, inflight)])

\* release calls in flight on composite c
Busy(c) == InFlightOn(c, "handle") + InFlightOn(c, "raw")

\* handles / raw units of c that no in-flight release is consuming
FreeHandles(c) == handles[c] - InFlightOn(c, "handle")
FreeRaws(c) == raws[c] - InFlightOn(c, "raw")

Diverged == <<"diverged">>

\* the history of c stays recorded only while every call on c is a
\* raw-pointer call that does not overlap another call on c
Record(c, ev) ==
    IF log[c] = Diverged \/ Busy(c) > 0 THEN Diverged
    ELSE Append(log[c], ev)

NoCall == [op |-> "none", ret |-> 0]

StressOff == [stage |-> "off", base |-> 0,
              iter |-> [w \in Workers |-> 0], ph |-> [w \in Workers |-> "idle"]]

\* RefCountedPtr { cef }: a slot is unused until the value is created, then
\* live; into_raw makes it consumed, Drop makes it dropped.  via / src record
\* the constructor that built it and the handle its unit came from.
NoSlot == [st |-> "unused", cef |-> NullPtr, via |-> "none", src |-> 0]
LiveSlot(p, via, src) == [st |-> "live", cef |-> p, via |-> via, src |-> src]
\* the pointer or Option the most recent handle call returned
NoRes == [op |-> "none", h |-> 0, some |-> FALSE, val |-> NullPtr]
NoHandles == [slot |-> [h \in HandleIds |-> NoSlot], held |-> {}, res |-> NoRes]
\* RefCountedPtrCache { ptr, arc }: not yet created; ret is the pointer of
\* the handle the most recent get_ptr_or_rewrap returned
\* inner[a] is the Arc<Inner> allocated at address a: its strong count and
\* its contents; user is the set of addresses the calling code holds a share
\* of; object[c] is the payload moved into composite c; given[c] counts the
\* handles get_ptr_or_rewrap returned on c that callers have not dropped
PayloadValues == {"x", "y"}
NoInner == [cnt |-> 0, val |-> "none"]
NoObject == [arc |-> 0, val |-> "none"]
NoCache == [st |-> "none", ptr |-> NullPtr, arc |-> 0, ret |-> NullPtr,
            inner |-> [a \in Idents |-> NoInner], user |-> {},
            object |-> [c \in CacheComps |-> NoObject],
            given |-> [c \in CacheComps |-> 0]]
\* no BrowserHost yet, no foreign browser object, the process is running
\* the header of a record the foreign side has not allocated
NoBase == [add_ref |-> "null", release |-> "null"]
\* what the most recent forwarding method did and returned
NoOut == [m |-> "none", called |-> FALSE, val |-> "unit"]
NoHost == [st |-> "none", browser |-> 0, get_browser |-> "null",
           refs |-> [f \in ForeignObjs |-> 0], fault |-> "none",
           base |-> [f \in ForeignObjs |-> NoBase], slots |-> "null",
           out |-> NoOut]
\* the methods of Extension that forward through a slot of cef_extension_t
ExtMethods ==
    {"get_identifier", "get_path", "get_manifest", "get_loader_context",
     "is_loaded", "unload"}
\* no Extension handle yet; refs is the count of the foreign record, out
\* the last method called, the foreign calls it made, the pointer they were
\* made on and what it returned
NoExt == [st |-> "none", cef |-> NullPtr, refs |-> 0,
          slots |-> [m \in ExtMethods |-> "null"],
          out |-> [m |-> "none", calls |-> 0, on |-> NullPtr, val |-> "unit"]]
\* no download_image call yet: comp is the composite built for the
\* callback, object its payload (the Option holding the closure), runs the
\* number of times the closure ran, calls the number of times the foreign
\* side invoked on_download_image_finished, image the Option<Image> the
\* closure was given, foreign the calls download_image made through its
\* slot and the callback pointer it passed
NoCallback == [st |-> "none", comp |-> 0, object |-> "none", runs |-> 0,
               calls |-> 0, image |-> "unset", fault |-> "none",
               foreign |-> [calls |-> 0, arg |-> NullPtr]]

Init ==
    /\ alloc = [c \in AllComps |-> "none"]
    /\ strong = [c \in AllComps |-> 0]
    /\ hdr = [c \in AllComps |-> ZeroedHeader]
    /\ teardown = [c \in AllComps |-> 0]
    /\ handles = [c \in AllComps |-> 0]
    /\ raws = [c \in AllComps |-> 0]
    /\ inflight = EmptyBag
    /\ last = NoCall
    /\ adds = [c \in AllComps |-> 0]
    /\ rels = [c \in AllComps |-> 0]
    /\ log = [c \in AllComps |-> <<>>]
    /\ stress = StressOff
    /\ hv = NoHandles
    /\ cache = NoCache
    /\ host = NoHost
    /\ ext = NoExt
    /\ cb = NoCallback

(* -------------------- RefCounted<C>: the composite --------------------- *)
\* composites are created in index order (an index is an address never reused)
NextFresh(c) == alloc[c] = "none" /\ \A d \in AllComps : d < c => alloc[d] # "none"

\* some unit of c exists that no in-flight release is consuming: the pointer
\* a caller passes is valid for the duration of the call
Borrowable(c) == alloc[c] = "live" /\ FreeHandles(c) + FreeRaws(c) > 0

\* RefCounted::new(cefobj, object): installs the header into the template,
\* Arc::new + Arc::into_raw; the caller gets a raw pointer carrying one unit
NewOp(c, template) ==
    /\ NextFresh(c)
    /\ alloc' = [alloc EXCEPT ![c] = "live"]
    /\ hdr' = [hdr EXCEPT ![c] = InstallHeader(template)]
    /\ strong' = [strong EXCEPT ![c] = ArcNew]
    /\ raws' = [raws EXCEPT ![c] = 1]
    /\ log' = [log EXCEPT ![c] = <<"new">>]
    /\ last' = NoCall
    /\ UNCHANGED <<teardown, handles, inflight, adds, rels>>

\* extern "C" fn add_ref: to_arc, clone, both temporaries are ManuallyDrop
AddRefEntry(c) ==
    /\ strong' = [strong EXCEPT ![c] = TempExpire(ArcClone(strong[c]))]
    /\ adds' = [adds EXCEPT ![c] = @ + 1]

\* the foreign side calls add_ref through the header on a pointer it was given
AddRefOp(c) ==
    /\ Borrowable(c)
    /\ hdr[c].add_ref = "Self::add_ref"
    /\ AddRefEntry(c)
    /\ raws' = [raws EXCEPT ![c] = @ + 1]
    /\ log' = [log EXCEPT ![c] = Record(c, "add_ref")]
    /\ last' = NoCall
    /\ UNCHANGED <<alloc, hdr, teardown, handles, inflight, rels>>

\* extern "C" fn release, first half: ManuallyDrop::into_inner(to_arc(ptr))
\* takes the unit, (Arc::strong_count(&this) > 1) as c_int is evaluated
ReleaseBeginOp(c, k, who) ==
    /\ alloc[c] = "live"
    /\ hdr[c].release = "Self::release"
    /\ \/ k = "handle" /\ FreeHandles(c) > 0
       \/ k = "raw" /\ FreeRaws(c) > 0
    /\ inflight' = inflight (+)
                     SetToBag({[c |-> c, k |-> k, ret |-> ReleaseResult(strong[c]),
                                 who |-> who]})
    /\ log' = [log EXCEPT ![c] =
                 IF k = "handle" \/ Busy(c) > 0 THEN Diverged ELSE @]
    /\ UNCHANGED <<alloc, strong, hdr, teardown, handles, raws, last, adds, rels>>

\* extern "C" fn release, second half: `this` is dropped when the function
\* returns the value computed earlier
ReleaseEndOp(r) ==
    LET c == r.c
        prev == strong[c]
        res == r.ret
    IN  /\ BagIn(r, inflight)
        /\ inflight' = inflight (-) SetToBag({r})
        /\ strong' = [strong EXCEPT ![c] = ArcDrop(prev)]
        /\ alloc' = [alloc EXCEPT ![c] = IF ArcFrees(prev) THEN "freed" ELSE @]
        /\ teardown' = [teardown EXCEPT ![c] = IF ArcFrees(prev) THEN @ + 1 ELSE @]
        /\ handles' = [handles EXCEPT ![c] = IF r.k = "handle" THEN @ - 1 ELSE @]
        /\ raws' = [raws EXCEPT ![c] = IF r.k = "raw" THEN @ - 1 ELSE @]
        /\ rels' = [rels EXCEPT ![c] = @ + 1]
        /\ last' = [op |-> "release", ret |-> res]
        /\ log' = [log EXCEPT ![c] =
                     IF @ = Diverged \/ Busy(c) > 1 THEN Diverged
                     ELSE Append(@, IF res = 1 THEN "release_true" ELSE "release_false")]
        /\ UNCHANGED <<hdr, adds>>

\* extern "C" fn has_one_ref: to_arc, strong_count == 1
HasOneRefOp(c) ==
    /\ Borrowable(c)
    /\ hdr[c].has_one_ref = "Self::has_one_ref"
    /\ strong' = [strong EXCEPT ![c] = TempExpire(strong[c])]
    /\ last' = [op |-> "has_one_ref", ret |-> HasOneRefResult(strong[c])]
    /\ UNCHANGED <<alloc, hdr, teardown, handles, raws, inflight, adds, rels, log>>

\* extern "C" fn has_at_least_one_ref: to_arc, strong_count >= 1
HasAtLeastOneRefOp(c) ==
    /\ Borrowable(c)
    /\ hdr[c].has_at_least_one_ref = "Self::has_at_least_one_ref"
    /\ strong' = [strong EXCEPT ![c] = TempExpire(strong[c])]
    /\ last' = [op |-> "has_at_least_one_ref",
                ret |-> HasAtLeastOneRefResult(strong[c])]
    /\ UNCHANGED <<alloc, hdr, teardown, handles, raws, inflight, adds, rels, log>>

\* RefCounted::wrapper(ptr): &(*(ptr as *const Self)).object, no Arc is built
WrapperOp(c) ==
    /\ Borrowable(c)
    /\ last' = NoCall
    /\ UNCHANGED <<alloc, strong, hdr, teardown, handles, raws, inflight, adds,
                   rels, log>>

(* ------------------ RefCountedPtr<C>: the owning handle ---------------- *)
\* RefCountedPtr::wrap: from_ptr_unchecked(RefCounted::new(cefobj, object))
WrapOp(c, template) ==
    /\ NextFresh(c)
    /\ alloc' = [alloc EXCEPT ![c] = "live"]
    /\ hdr' = [hdr EXCEPT ![c] = InstallHeader(template)]
    /\ strong' = [strong EXCEPT ![c] = ArcNew]
    /\ handles' = [handles EXCEPT ![c] = 1]
    /\ log' = [log EXCEPT ![c] = Diverged]
    /\ last' = NoCall
    /\ UNCHANGED <<teardown, raws, inflight, adds, rels>>

\* a from_ptr_add_ref that builds the handle without calling add_ref
FromPtrAddRefSkips(c) ==
    /\ Borrowable(c)
    /\ handles' = [handles EXCEPT ![c] = @ + 1]
    /\ log' = [log EXCEPT ![c] = Diverged]
    /\ last' = NoCall
    /\ UNCHANGED <<alloc, strong, adds, hdr, teardown, raws, inflight, rels>>

\* RefCountedPtr::from_ptr_add_ref on a non-null pointer: add_ref through the
\* header, then the handle is built
FromPtrAddRefOp(c) ==
    /\ Borrowable(c)
    /\ hdr[c].add_ref = "Self::add_ref"
    /\ AddRefEntry(c)
    /\ handles' = [handles EXCEPT ![c] = @ + 1]
    /\ log' = [log EXCEPT ![c] = Diverged]
    /\ last' = NoCall
    /\ UNCHANGED <<alloc, hdr, teardown, raws, inflight, rels>>

\* RefCountedPtr::from_ptr / from_ptr_unchecked on a non-null pointer that
\* carries a unit: the unit becomes the handle's, nothing is called
FromPtrOp(c) ==
    /\ alloc[c] = "live"
    /\ FreeRaws(c) > 0
    /\ raws' = [raws EXCEPT ![c] = @ - 1]
    /\ handles' = [handles EXCEPT ![c] = @ + 1]
    /\ log' = [log EXCEPT ![c] = Diverged]
    /\ last' = NoCall
    /\ UNCHANGED <<alloc, strong, hdr, teardown, inflight, adds, rels>>

\* RefCountedPtr::as_ptr and Deref::deref: read the pointer field
AsPtrOp(c) ==
    /\ alloc[c] = "live"
    /\ FreeHandles(c) > 0
    /\ last' = NoCall
    /\ UNCHANGED <<alloc, strong, hdr, teardown, handles, raws, inflight, adds,
                   rels, log>>

\* RefCountedPtr::into_raw: as_ptr, mem::forget(self)
IntoRawOp(c) ==
    /\ alloc[c] = "live"
    /\ FreeHandles(c) > 0
    /\ strong' = [strong EXCEPT ![c] = Forget(strong[c])]
    /\ handles' = [handles EXCEPT ![c] = @ - 1]
    /\ raws' = [raws EXCEPT ![c] = @ + 1]
    /\ log' = [log EXCEPT ![c] = Diverged]
    /\ last' = NoCall
    /\ UNCHANGED <<alloc, hdr, teardown, inflight, adds, rels>>

\* Clone for RefCountedPtr: add_ref through the header of the held pointer
CloneOp(c) ==
    /\ alloc[c] = "live"
    /\ FreeHandles(c) > 0
    /\ hdr[c].add_ref = "Self::add_ref"
    /\ AddRefEntry(c)
    /\ handles' = [handles EXCEPT ![c] = @ + 1]
    /\ log' = [log EXCEPT ![c] = Diverged]
    /\ last' = NoCall
    /\ UNCHANGED <<alloc, hdr, teardown, raws, inflight, rels>>

(* ----------------- the program: any caller, any thread ----------------- *)
\* a thread is available to enter release
ThreadFree == BagCardinality(inflight) < MaxThreads
\* the model stops incrementing c after MaxAdds increments
MayAdd(c) == adds[c] < MaxAdds

New(c, template) == NewOp(c, template) /\ UNCHANGED offPlain
Wrap(c, template) == WrapOp(c, template) /\ UNCHANGED offPlain
AddRef(c) == MayAdd(c) /\ AddRefOp(c) /\ UNCHANGED offPlain
\* the foreign side calls release on a raw pointer whose unit it holds
ReleaseBegin(c) == ThreadFree /\ ReleaseBeginOp(c, "raw", 0) /\ UNCHANGED offPlain
\* Drop for RefCountedPtr: release through the header of the held pointer
DropBegin(c) == ThreadFree /\ ReleaseBeginOp(c, "handle", 0) /\ UNCHANGED offPlain
ReleaseEnd(r) == ReleaseEndOp(r) /\ UNCHANGED offPlain
HasOneRef(c) == HasOneRefOp(c) /\ UNCHANGED offPlain
HasAtLeastOneRef(c) == HasAtLeastOneRefOp(c) /\ UNCHANGED offPlain
Wrapper(c) == WrapperOp(c) /\ UNCHANGED offPlain
FromPtrAddRef(c) == MayAdd(c) /\ FromPtrAddRefOp(c) /\ UNCHANGED offPlain
FromPtr(c) == FromPtrOp(c) /\ UNCHANGED offPlain
FromPtrUnchecked(c) == FromPtrOp(c) /\ UNCHANGED offPlain
AsPtr(c) == AsPtrOp(c) /\ UNCHANGED offPlain
Deref(c) == AsPtrOp(c) /\ UNCHANGED offPlain
IntoRaw(c) == IntoRawOp(c) /\ UNCHANGED offPlain
Clone(c) == MayAdd(c) /\ CloneOp(c) /\ UNCHANGED offPlain

Next ==
    \/ \E c \in Comps, template \in Templates : New(c, template)
    \/ \E c \in Comps, template \in Templates : Wrap(c, template)
    \/ \E c \in Comps : AddRef(c)
    \/ \E c \in Comps : ReleaseBegin(c)
    \/ \E c \in Comps : DropBegin(c)
    \/ \E r \in BagToSet(inflight) : ReleaseEnd(r)
    \/ \E c \in Comps : HasOneRef(c)
    \/ \E c \in Comps : HasAtLeastOneRef(c)
    \/ \E c \in Comps : Wrapper(c)
    \/ \E c \in Comps : FromPtrAddRef(c)
    \/ \E c \in Comps : FromPtr(c)
    \/ \E c \in Comps : FromPtrUnchecked(c)
    \/ \E c \in Comps : AsPtr(c)
    \/ \E c \in Comps : Deref(c)
    \/ \E c \in Comps : IntoRaw(c)
    \/ \E c \in Comps : Clone(c)

Spec == Init /\ [][Next]_vars

(* ------------------------- concurrent stress run ----------------------- *)
\* The main thread wraps a payload and may clone its handle; then every
\* worker performs StressPairs times: clone the shared handle, drop the
\* clone.  After joining the workers the main thread drops its handles.
\* the composite of the stress run: the first one allocated
StressComp == CHOOSE c \in Comps : \A d \in Comps : c <= d

SetStage(st) == stress' = [stress EXCEPT !.stage = st]

StressSetup(template) ==
    /\ stress.stage = "off"
    /\ WrapOp(StressComp, template)
    /\ SetStage("setup")
    /\ UNCHANGED offStress

StressExtra ==
    /\ stress.stage = "setup"
    /\ MayAdd(StressComp)
    /\ CloneOp(StressComp)
    /\ UNCHANGED stress
    /\ UNCHANGED offStress

StressStart ==
    /\ stress.stage = "setup"
    /\ stress' = [stress EXCEPT !.stage = "run", !.base = strong[StressComp]]
    /\ UNCHANGED core
    /\ UNCHANGED offStress

StressClone(w) ==
    /\ stress.stage = "run"
    /\ stress.ph[w] = "idle"
    /\ stress.iter[w] < StressPairs
    /\ CloneOp(StressComp)
    /\ stress' = [stress EXCEPT !.ph[w] = "holding"]
    /\ UNCHANGED offStress

StressDropBegin(w) ==
    /\ stress.ph[w] = "holding"
    /\ ReleaseBeginOp(StressComp, "handle", w)
    /\ stress' = [stress EXCEPT !.ph[w] = "dropping"]
    /\ UNCHANGED offStress

StressDropEnd(w) ==
    /\ stress.ph[w] = "dropping"
    /\ \E r \in BagToSet(inflight) : r.who = w /\ ReleaseEndOp(r)
    /\ stress' = [stress EXCEPT !.ph[w] = "idle", !.iter[w] = @ + 1]
    /\ UNCHANGED offStress

WorkersDone == \A w \in Workers : stress.iter[w] = StressPairs

StressJoin ==
    /\ stress.stage = "run"
    /\ WorkersDone
    /\ SetStage("final")
    /\ UNCHANGED core
    /\ UNCHANGED offStress

StressFinalBegin ==
    /\ stress.stage = "final"
    /\ inflight = EmptyBag
    /\ ReleaseBeginOp(StressComp, "handle", 0)
    /\ UNCHANGED stress
    /\ UNCHANGED offStress

StressFinalEnd ==
    /\ stress.stage = "final"
    /\ \E r \in BagToSet(inflight) : r.who = 0 /\ ReleaseEndOp(r)
    /\ SetStage(IF handles'[StressComp] = 0 THEN "done" ELSE "final")
    /\ UNCHANGED offStress

NextStress ==
    \/ \E template \in Templates : StressSetup(template)
    \/ StressExtra
    \/ StressStart
    \/ \E w \in Workers : StressClone(w)
    \/ \E w \in Workers : StressDropBegin(w)
    \/ \E w \in Workers : StressDropEnd(w)
    \/ StressJoin
    \/ StressFinalBegin
    \/ StressFinalEnd

\* threads are scheduled by the operating system and the main thread joins
\* them: a step that stays possible is eventually taken
SpecStress == Init /\ [][NextStress]_vars /\ WF_vars(NextStress)

(* ------------------- a caller's handles, one by one -------------------- *)
\* A caller creates RefCountedPtr values with the constructors, clones them,
\* turns them into raw pointers and back, and drops them.  Raw pointers a
\* caller got from into_raw are `held`: each carries the unit of the handle
\* that was consumed.
coreButLast == <<alloc, strong, hdr, teardown, handles, raws, inflight, adds,
                 rels, log>>

\* handle values are created in slot order
NextSlot(g) ==
    /\ hv.slot[g].st = "unused"
    /\ \A k \in HandleIds : k < g => hv.slot[k].st # "unused"
Live(h) == hv.slot[h].st = "live"
CompOf(h) == hv.slot[h].cef.blk

\* a null raw pointer handed to a constructor
NullUnit == [ptr |-> NullPtr, by |-> 0]
\* pointers a caller can lend to from_ptr_add_ref: what as_ptr of a live
\* handle returns, and the raw pointers it holds
BorrowedPtrs ==
    {hv.slot[h].cef : h \in {k \in HandleIds : Live(k)}} \cup {x.ptr : x \in hv.held}

\* a call that touches no composite
NoCoreEffect == last' = NoCall /\ UNCHANGED coreButLast

\* RefCountedPtr::wrap(cefobj, object)
HandleWrap(g, c, template) ==
    /\ NextSlot(g)
    /\ WrapOp(c, template)
    /\ hv' = [hv EXCEPT !.slot[g] = LiveSlot(CompositePtr(c), "wrap", 0),
                        !.res = NoRes]
    /\ UNCHANGED offHandle

\* Clone for RefCountedPtr: RefCountedPtr { cef: self.cef }, add_ref
HandleClone(h, g) ==
    /\ Live(h) /\ NextSlot(g)
    /\ MayAdd(CompOf(h))
    /\ CloneOp(CompOf(h))
    /\ hv' = [hv EXCEPT !.slot[g] = LiveSlot(hv.slot[h].cef, "clone", h),
                        !.res = NoRes]
    /\ UNCHANGED offHandle

\* RefCountedPtr::into_raw(self): the pointer is returned, Drop never runs
HandleIntoRaw(h) ==
    /\ Live(h)
    /\ IntoRawOp(CompOf(h))
    /\ hv' = [hv EXCEPT !.slot[h].st = "consumed",
                        !.held = @ \cup {[ptr |-> hv.slot[h].cef, by |-> h]},
                        !.res = [op |-> "into_raw", h |-> h, some |-> TRUE,
                                 val |-> hv.slot[h].cef]]
    /\ UNCHANGED offHandle

\* RefCountedPtr::from_ptr(ptr): NonNull::new(ptr)?, then the handle
HandleFromPtr(g, x) ==
    LET nn == NonNullNew(x.ptr)
    IN  /\ NextSlot(g)
        /\ IF ~nn.some
           THEN /\ NoCoreEffect
                /\ hv' = [hv EXCEPT !.res = [op |-> "from_ptr", h |-> 0,
                                             some |-> FALSE, val |-> NullPtr]]
           ELSE /\ IF nn.cef.blk \in Comps THEN FromPtrOp(nn.cef.blk)
                   ELSE NoCoreEffect
                /\ hv' = [hv EXCEPT !.slot[g] = LiveSlot(nn.cef, "from_ptr", x.by),
                                    !.held = @ \ {x},
                                    !.res = [op |-> "from_ptr", h |-> g,
                                             some |-> TRUE, val |-> nn.cef]]
        /\ UNCHANGED offHandle

\* RefCountedPtr::from_ptr_unchecked(ptr) on a pointer the caller holds
HandleFromPtrUnchecked(g, x) ==
    /\ NextSlot(g)
    /\ FromPtrOp(x.ptr.blk)
    /\ hv' = [hv EXCEPT !.slot[g] = LiveSlot(x.ptr, "from_ptr_unchecked", x.by),
                        !.held = @ \ {x},
                        !.res = [op |-> "from_ptr_unchecked", h |-> g,
                                 some |-> TRUE, val |-> x.ptr]]
    /\ UNCHANGED offHandle

\* RefCountedPtr::from_ptr_add_ref(ptr): NonNull::new(ptr)?, add_ref through
\* the header, then the handle
HandleFromPtrAddRef(g, p) ==
    LET nn == NonNullNew(p)
    IN  /\ NextSlot(g)
        /\ IF ~nn.some
           THEN /\ NoCoreEffect
                /\ hv' = [hv EXCEPT !.res = [op |-> "from_ptr_add_ref", h |-> 0,
                                             some |-> FALSE, val |-> NullPtr]]
           ELSE /\ IF nn.cef.blk \in Comps
                   THEN MayAdd(nn.cef.blk) /\ FromPtrAddRefOp(nn.cef.blk)
                   ELSE NoCoreEffect
                /\ hv' = [hv EXCEPT !.slot[g] = LiveSlot(nn.cef, "from_ptr_add_ref", 0),
                                    !.res = [op |-> "from_ptr_add_ref", h |-> g,
                                             some |-> TRUE, val |-> nn.cef]]
        /\ UNCHANGED offHandle

\* RefCountedPtr::as_ptr(&self)
HandleAsPtr(h) ==
    /\ Live(h)
    /\ AsPtrOp(CompOf(h))
    /\ hv' = [hv EXCEPT !.res = [op |-> "as_ptr", h |-> h, some |-> TRUE,
                                 val |-> hv.slot[h].cef]]
    /\ UNCHANGED offHandle

\* the payload borrowed through a handle: RefCounted::wrapper(handle.as_ptr())
HandleWrapper(h) ==
    /\ Live(h)
    /\ WrapperOp(CompOf(h))
    /\ hv' = [hv EXCEPT !.res = [op |-> "wrapper", h |-> h, some |-> TRUE,
                                 val |-> WrapperOf(hv.slot[h].cef)]]
    /\ UNCHANGED offHandle

\* Drop for RefCountedPtr, entered: the value is gone for the caller
HandleDropBegin(h) ==
    /\ Live(h)
    /\ ThreadFree
    /\ ReleaseBeginOp(CompOf(h), "handle", h)
    /\ hv' = [hv EXCEPT !.slot[h].st = "dropped", !.res = NoRes]
    /\ UNCHANGED offHandle

\* Drop for RefCountedPtr, release returns
HandleDropEnd(h) ==
    /\ \E r \in BagToSet(inflight) : r.who = h /\ ReleaseEndOp(r)
    /\ hv' = [hv EXCEPT !.res = NoRes]
    /\ UNCHANGED offHandle

NextHandle ==
    \/ \E g \in HandleIds, c \in Comps, template \in Templates : HandleWrap(g, c, template)
    \/ \E h \in HandleIds, g \in HandleIds : HandleClone(h, g)
    \/ \E h \in HandleIds : HandleIntoRaw(h)
    \/ \E g \in HandleIds, x \in hv.held \cup {NullUnit} : HandleFromPtr(g, x)
    \/ \E g \in HandleIds, x \in hv.held : HandleFromPtrUnchecked(g, x)
    \/ \E g \in HandleIds, p \in BorrowedPtrs \cup {NullPtr} : HandleFromPtrAddRef(g, p)
    \/ \E h \in HandleIds : HandleAsPtr(h)
    \/ \E h \in HandleIds : HandleWrapper(h)
    \/ \E h \in HandleIds : HandleDropBegin(h)
    \/ \E h \in HandleIds : HandleDropEnd(h)

SpecHandle == Init /\ [][NextHandle]_vars

(* --------------------- browser_host.rs: BrowserHost -------------------- *)
\* Browser values are RefCountedPtr<cef_browser_t> over records the foreign
\* side allocates and counts itself: host.refs[f] is the count of browser f,
\* of which the foreign side keeps one unit.  A fault ends the run.
Running == host.fault = "none"

\* browsers are created in index order
NextBrowser(f) ==
    /\ host.refs[f] = 0
    /\ \A k \in ForeignObjs : k < f => host.refs[k] # 0

\* the headers the foreign side may give a record it allocates
ForeignBases == [add_ref : SlotValues, release : SlotValues]

\* what from_ptr_unchecked(ret) leaves behind for a foreign return value ret
\* that carries a unit for the caller when it is not null; after is the
\* foreign side's state when its call returns
IssueUnchecked(g, ret, via, out, after) ==
    /\ out \in NewUncheckedOutcomes(ret)
    /\ hv' = [hv EXCEPT !.slot[g] =
                 IF out = "abort" THEN @ ELSE LiveSlot(ret, via, 0),
                        !.res = NoRes]
    /\ host' = [after EXCEPT !.out = NoOut,
                             !.fault = IF out = "abort" THEN "abort" ELSE @]

\* a BrowserHost of browser f was obtained; its get_browser slot is set or
\* not, and so are the other slots of its table (slots); base is the header
\* of the browser record
HostOpen(f, slot, slots, base) ==
    /\ Running /\ host.st = "none"
    /\ NextBrowser(f)
    /\ host' = [host EXCEPT !.st = "open", !.browser = f, !.get_browser = slot,
                            !.refs[f] = 1, !.base[f] = base, !.slots = slots]
    /\ UNCHANGED <<core, hv, offHost>>

\* BrowserHost::create_browser_sync: ClientWrapper::wrap(client) hands a new
\* composite to the foreign call; the call returns a new browser with a unit
\* for the caller, or null; Browser::from_ptr_unchecked(ret)
CreateBrowserSync(g, c, template, f, isnull, out, base) ==
    /\ Running
    /\ NextSlot(g)
    /\ NextBrowser(f)
    /\ NewOp(c, template)
    /\ IF isnull
       THEN base = NoBase
            /\ IssueUnchecked(g, NullPtr, "create_browser_sync", out, host)
       ELSE IssueUnchecked(g, ForeignPtr(f), "create_browser_sync", out,
                           [host EXCEPT !.refs[f] = 2, !.base[f] = base])
    /\ UNCHANGED offHost

\* BrowserHost::get_browser: self.0.get_browser.unwrap()(self.0.as_ptr()),
\* Browser::from_ptr_unchecked(ret); the foreign call returns the hosted
\* browser with a unit for the caller, or null
GetBrowser(g, isnull, out) ==
    /\ Running /\ host.st = "open"
    /\ NextSlot(g)
    /\ IF host.get_browser = "null"
       THEN /\ host' = [host EXCEPT !.fault = "panic", !.out = NoOut]
            /\ hv' = [hv EXCEPT !.res = NoRes]
       ELSE IF isnull
       THEN IssueUnchecked(g, NullPtr, "get_browser", out, host)
       ELSE IssueUnchecked(g, ForeignPtr(host.browser), "get_browser", out,
                           [host EXCEPT !.refs[host.browser] = @ + 1])
    /\ UNCHANGED <<core, offHost>>

\* the foreign record a live handle points to
ForeignOf(h) == 0 - CompOf(h)

\* BrowserHost::get_request_context: self.0.get_request_context.and_then(
\* |f| RequestContext::from_ptr(f(self.0.as_ptr()))).unwrap(); the foreign
\* call returns a request context f with a unit for the caller, or null
GetRequestContext(g, f, isnull, base) ==
    /\ Running /\ host.st = "open"
    /\ NextSlot(g)
    /\ IF host.slots = "null"
       THEN /\ host' = [host EXCEPT !.fault = "panic",
                            !.out = [m |-> "get_request_context",
                                     called |-> FALSE, val |-> "unit"]]
            /\ hv' = [hv EXCEPT !.res = NoRes]
       ELSE IF isnull \/ ~ NonNullNew(ForeignPtr(f)).some
       THEN /\ host' = [host EXCEPT !.fault = "panic",
                            !.out = [m |-> "get_request_context",
                                     called |-> TRUE, val |-> "unit"]]
            /\ hv' = [hv EXCEPT !.res = NoRes]
       ELSE /\ NextBrowser(f)
            /\ host' = [host EXCEPT !.refs[f] = 2, !.base[f] = base,
                            !.out = [m |-> "get_request_context",
                                     called |-> TRUE, val |-> "handle"]]
            /\ hv' = [hv EXCEPT !.slot[g] =
                          LiveSlot(ForeignPtr(f), "get_request_context", 0),
                                !.res = NoRes]
    /\ UNCHANGED <<core, offHost>>

\* the methods that test their slot with if let Some / map / and_then and
\* end in a default
CheckedMethods ==
    {"close_browser", "try_close_browser", "set_focus", "get_window_handle",
     "get_opener_window_handle", "has_view", "get_zoom_level",
     "set_zoom_level", "start_download"}

\* what the foreign function returns: an int, a window handle or an f64,
\* zero (null) or not
ForeignReturns == {0, 1}

\* what a method returns when its slot is null
ForwardDefault(m) ==
    CASE m \in {"try_close_browser", "has_view"} -> "false"
      [] m = "get_window_handle" -> "null"
      [] m = "get_opener_window_handle" -> "None"
      [] m = "get_zoom_level" -> "0.0"
      [] OTHER -> "unit"

\* what a method makes of the value ret the foreign function returned
ForwardResult(m, ret) ==
    CASE m \in {"try_close_browser", "has_view"} ->
            IF ret # 0 THEN "true" ELSE "false"
      [] m = "get_window_handle" -> IF ret = 0 THEN "null" ELSE "window"
      [] m = "get_opener_window_handle" -> IF ret = 0 THEN "None" ELSE "Some"
      [] m = "get_zoom_level" -> IF ret = 0 THEN "0.0" ELSE "level"
      [] OTHER -> "unit"

\* close_browser, try_close_browser, set_focus, get_window_handle,
\* get_opener_window_handle, has_view, get_zoom_level, set_zoom_level,
\* start_download: the slot is read; when it is set the foreign function is
\* called on self.0.as_ptr()
HostForward(m, ret) ==
    /\ Running /\ host.st = "open"
    /\ host' = [host EXCEPT !.out =
                    IF host.slots = "null"
                    THEN [m |-> m, called |-> FALSE, val |-> ForwardDefault(m)]
                    ELSE [m |-> m, called |-> TRUE, val |-> ForwardResult(m, ret)]]
    /\ UNCHANGED <<core, hv, offHost>>

\* Clone for RefCountedPtr on a Browser: reads the header behind self.cef,
\* self.cef.as_ref().base().add_ref.unwrap() and calls it
BrowserClone(h, g) ==
    /\ Running
    /\ Live(h) /\ NextSlot(g)
    /\ IF hv.slot[h].cef = NullPtr
       THEN /\ host' = [host EXCEPT !.fault = "segv", !.out = NoOut]
            /\ hv' = [hv EXCEPT !.res = NoRes]
       ELSE IF host.base[ForeignOf(h)].add_ref = "null"
       THEN /\ host' = [host EXCEPT !.fault = "panic", !.out = NoOut]
            /\ hv' = [hv EXCEPT !.res = NoRes]
       ELSE /\ host' = [host EXCEPT !.refs[ForeignOf(h)] = @ + 1, !.out = NoOut]
            /\ hv' = [hv EXCEPT !.slot[g] = LiveSlot(hv.slot[h].cef, "clone", h),
                                !.res = NoRes]
    /\ UNCHANGED <<core, offHost>>

\* Drop for RefCountedPtr on a Browser: reads the header behind self.cef,
\* self.cef.as_ref().base().release.unwrap() and calls it
BrowserDrop(h) ==
    /\ Running
    /\ Live(h)
    /\ IF hv.slot[h].cef = NullPtr
       THEN host' = [host EXCEPT !.fault = "segv", !.out = NoOut]
       ELSE IF host.base[ForeignOf(h)].release = "null"
       THEN host' = [host EXCEPT !.fault = "panic", !.out = NoOut]
       ELSE host' = [host EXCEPT !.refs[ForeignOf(h)] = @ - 1, !.out = NoOut]
    /\ hv' = [hv EXCEPT !.slot[h].st = "dropped", !.res = NoRes]
    /\ UNCHANGED <<core, offHost>>

\* Browser::from_ptr_add_ref(ptr) on a pointer the foreign side lent:
\* NonNull::new(ptr)?, base().add_ref.unwrap() and the call through it
BrowserFromPtrAddRef(g, p) ==
    /\ Running
    /\ NextSlot(g)
    /\ p = NullPtr \/ \E f \in ForeignObjs : p = ForeignPtr(f) /\ host.refs[f] > 0
    /\ IF ~ NonNullNew(p).some
       THEN /\ host' = [host EXCEPT !.out = NoOut]
            /\ hv' = [hv EXCEPT !.res = [op |-> "from_ptr_add_ref", h |-> 0,
                                         some |-> FALSE, val |-> NullPtr]]
       ELSE IF host.base[0 - p.blk].add_ref = "null"
       THEN /\ host' = [host EXCEPT !.fault = "panic", !.out = NoOut]
            /\ hv' = [hv EXCEPT !.res = NoRes]
       ELSE /\ host' = [host EXCEPT !.refs[0 - p.blk] = @ + 1, !.out = NoOut]
            /\ hv' = [hv EXCEPT !.slot[g] = LiveSlot(p, "from_ptr_add_ref", 0),
                                !.res = [op |-> "from_ptr_add_ref", h |-> g,
                                         some |-> TRUE, val |-> p]]
    /\ UNCHANGED <<core, offHost>>

NextHost ==
    \/ \E f \in ForeignObjs, slot \in SlotValues, slots \in SlotValues,
          base \in ForeignBases : HostOpen(f, slot, slots, base)
    \/ \E g \in HandleIds, c \in Comps, template \in {ZeroedHeader},
          f \in ForeignObjs, isnull \in BOOLEAN,
          out \in {"handle", "null_handle", "abort"}, base \in ForeignBases :
            CreateBrowserSync(g, c, template, f, isnull, out, base)
    \/ \E g \in HandleIds, p \in {NullPtr} \cup {ForeignPtr(f) : f \in ForeignObjs} :
          BrowserFromPtrAddRef(g, p)
    \/ \E g \in HandleIds, isnull \in BOOLEAN,
          out \in {"handle", "null_handle", "abort"} : GetBrowser(g, isnull, out)
    \/ \E h \in HandleIds, g \in HandleIds : BrowserClone(h, g)
    \/ \E h \in HandleIds : BrowserDrop(h)

SpecHost == Init /\ [][NextHost]_vars

\* the methods of one BrowserHost that forward through its table
NextForward ==
    \/ \E f \in ForeignObjs, slot \in SlotValues, slots \in SlotValues,
          base \in ForeignBases : HostOpen(f, slot, slots, base)
    \/ \E g \in HandleIds, isnull \in BOOLEAN,
          out \in {"handle", "null_handle", "abort"} : GetBrowser(g, isnull, out)
    \/ \E g \in HandleIds, f \in ForeignObjs, isnull \in BOOLEAN,
          base \in ForeignBases : GetRequestContext(g, f, isnull, base)
    \/ \E m \in CheckedMethods, ret \in ForeignReturns : HostForward(m, ret)

SpecForward == Init /\ [][NextForward]_vars

(* ------------- browser_host.rs: DownloadImageCallbackWrapper ----------- *)
\* A panic that reaches the end of an extern "C" fn with nothing to catch
\* it: depending on the toolchain and the panic strategy the process aborts
\* there or the unwind goes on into the frames of the foreign caller.
PanicOutcomes == {"abort", "unwind"}

\* RefCounted::make_temp(self_): a view of the composite behind the pointer
\* for the duration of the call; like to_arc it takes no unit and gives
\* none back
MakeTemp(n) == TempExpire(n)

\* a take that leaves the closure in the payload
TakeKeeps(object) == [got |-> object = "some", left |-> object]

\* this.take() on the payload Option<Box<dyn FnOnce>>: yields what it holds
\* and leaves None
Take(object) == [got |-> object = "some", left |-> "none"]

\* rc.get_cef(): the address of the cefobj field of the composite rc points to
GetCef(p) == [blk |-> p.blk, field |-> "cefobj"]

\* BrowserHost::download_image(.., callback): with the slot set,
\* DownloadImageCallbackWrapper::new(callback) builds the composite around
\* Some(Box::new(callback)) and its raw pointer is the last argument of the
\* one foreign call; with the slot null the callback is dropped
DownloadImage(slot, c, template) ==
    /\ cb.fault = "none"
    /\ cb.st = "sent" => alloc[cb.comp] = "freed"
    /\ IF slot = "null"
       THEN /\ cb' = [NoCallback EXCEPT !.st = "unsupported"]
            /\ UNCHANGED core
       ELSE /\ NewOp(c, template)
            /\ cb' = [NoCallback EXCEPT
                        !.st = "sent", !.comp = c, !.object = "some",
                        !.foreign = [calls |-> 1,
                                     arg |-> GetCef(CompositePtr(c))]]
    /\ UNCHANGED offCallback

\* the foreign side makes its calls on the callback object one at a time,
\* on a pointer it holds a unit for by its own count (raws)
ForeignMayCall ==
    /\ cb.fault = "none" /\ cb.st = "sent"
    /\ inflight = EmptyBag
    /\ raws[cb.comp] > 0

\* the foreign side takes another unit through the header
CallbackAddRef ==
    /\ ForeignMayCall
    /\ MayAdd(cb.comp)
    /\ AddRefOp(cb.comp)
    /\ UNCHANGED <<cb, offCallback>>

\* extern "C" fn download_image_finished(self_, ..): make_temp(self_),
\* this.take(), the closure is called if there was one, then
\* RefCounted::release(this.get_cef()); a closure that panics ends the
\* function before the release; the closure is given Image::from_ptr(image)
DownloadImageFinished(panics, out, image) ==
    LET c == cb.comp
        prev == strong[c]
        taken == Take(cb.object)
    IN  /\ ForeignMayCall
        /\ alloc[c] = "live"
        /\ IF taken.got /\ panics
           THEN /\ out \in PanicOutcomes
                /\ cb' = [cb EXCEPT !.object = taken.left, !.runs = @ + 1,
                                    !.calls = @ + 1, !.fault = out,
                                    !.image = IF NonNullNew(image).some
                                              THEN "Some" ELSE "None"]
                /\ UNCHANGED core
           ELSE /\ out = "abort"
                /\ cb' = [cb EXCEPT
                            !.object = IF ArcFrees(prev) THEN "dropped"
                                       ELSE taken.left,
                            !.runs = IF taken.got THEN @ + 1 ELSE @,
                            !.image = IF ~ taken.got THEN @
                                      ELSE IF NonNullNew(image).some
                                      THEN "Some" ELSE "None",
                            !.calls = @ + 1]
                /\ strong' = [strong EXCEPT ![c] = ArcDrop(MakeTemp(prev))]
                /\ alloc' = [alloc EXCEPT ![c] = IF ArcFrees(prev) THEN "freed" ELSE @]
                /\ teardown' = [teardown EXCEPT ![c] = IF ArcFrees(prev) THEN @ + 1 ELSE @]
                /\ rels' = [rels EXCEPT ![c] = @ + 1]
                /\ log' = [log EXCEPT ![c] = Diverged]
                /\ last' = NoCall
                /\ UNCHANGED <<hdr, handles, raws, inflight, adds>>
        /\ UNCHANGED offCallback

\* the foreign side releases a unit it holds by its own count; on a
\* composite that was freed already the call works on freed memory and
\* what follows is undefined
CallbackReleaseBegin ==
    /\ ForeignMayCall
    /\ IF alloc[cb.comp] = "live"
       THEN /\ ReleaseBeginOp(cb.comp, "raw", 0)
            /\ UNCHANGED cb
       ELSE /\ cb' = [cb EXCEPT !.fault = "use_after_free"]
            /\ rels' = [rels EXCEPT ![cb.comp] = @ + 1]
            /\ UNCHANGED <<alloc, strong, hdr, teardown, handles, raws,
                           inflight, last, adds, log>>
    /\ UNCHANGED offCallback

\* release returns; the call that freed the composite dropped the payload
CallbackReleaseEnd(r) ==
    /\ ReleaseEndOp(r)
    /\ cb' = IF ArcFrees(strong[r.c]) THEN [cb EXCEPT !.object = "dropped"]
             ELSE cb
    /\ UNCHANGED offCallback

NextCallback ==
    \/ \E slot \in SlotValues, c \in Comps, template \in {ZeroedHeader} :
          DownloadImage(slot, c, template)
    \/ CallbackAddRef
    \/ \E panics \in BOOLEAN, out \in PanicOutcomes,
          image \in {NullPtr} \cup {ForeignPtr(f) : f \in ForeignObjs} :
          DownloadImageFinished(panics, out, image)
    \/ CallbackReleaseBegin
    \/ \E r \in BagToSet(inflight) : CallbackReleaseEnd(r)

SpecCallback == Init /\ [][NextCallback]_vars

(* ------------------------ extension.rs: Extension ---------------------- *)
\* defaults that report an unsupported extension as loaded
ExtDefaultLoaded(m) == IF m = "is_loaded" THEN "true" ELSE "unit"

\* what a method returns when its slot is null: unwrap_or("".to_owned()),
\* unwrap_or_default(), the None of and_then, no else branch
ExtDefault(m) ==
    CASE m \in {"get_identifier", "get_path"} -> "empty string"
      [] m = "get_manifest" -> "empty map"
      [] m = "get_loader_context" -> "None"
      [] m = "is_loaded" -> "false"
      [] OTHER -> "unit"

\* what a method makes of the value ret the foreign function returned (a
\* string, dictionary or request context pointer, null when 0; an int)
ExtResult(m, ret) ==
    CASE m \in {"get_identifier", "get_path"} ->
            IF ret = 0 THEN "empty string" ELSE "string"
      [] m = "get_manifest" -> IF ret = 0 THEN "empty map" ELSE "map"
      [] m = "get_loader_context" -> IF ret = 0 THEN "None" ELSE "Some"
      [] m = "is_loaded" -> IF ret # 0 THEN "true" ELSE "false"
      [] OTHER -> "unit"

\* an Extension handle over foreign record f was obtained; slots is the
\* table of the record, refs its count (the handle's unit and those the
\* foreign side keeps)
ExtOpen(f, slots, refs) ==
    /\ ext.st = "none"
    /\ ext' = [ext EXCEPT !.st = "open", !.cef = ForeignPtr(f),
                          !.slots = slots, !.refs = refs]
    /\ UNCHANGED offExt

\* get_identifier, get_path, get_manifest, get_loader_context, is_loaded,
\* unload: the slot is read; when it is set the foreign function is called
\* once on self.0.as_ptr()
ExtCall(m, ret) ==
    /\ ext.st = "open"
    /\ ext' = [ext EXCEPT !.out =
                   IF ext.slots[m] = "null"
                   THEN [m |-> m, calls |-> 0, on |-> NullPtr,
                         val |-> ExtDefault(m)]
                   ELSE [m |-> m, calls |-> 1, on |-> ext.cef,
                         val |-> ExtResult(m, ret)]]
    /\ UNCHANGED offExt

NextExt ==
    \/ \E f \in ForeignObjs, slots \in [ExtMethods -> SlotValues],
          refs \in 1..MaxForeign : ExtOpen(f, slots, refs)
    \/ \E m \in ExtMethods, ret \in ForeignReturns : ExtCall(m, ret)

SpecExt == Init /\ [][NextExt]_vars

(* ------------------------- RefCountedPtrCache -------------------------- *)
\* The cache owns one handle (ptr) and the identity (arc) of the payload it
\* wrapped last.  Callers own the handles get_ptr_or_rewrap returned and
\* drop them from any thread.
CacheComp == cache.ptr.blk

\* handles on c that belong to callers and are not being dropped
CallerHandles(c) ==
    FreeHandles(c) - (IF cache.st = "init" /\ CacheComp = c THEN 1 ELSE 0)

\* a clone that takes no share
CloneShareLost(inner, a) == inner

\* Arc<Inner>::clone on the backing object at address a
CloneShare(inner, a) == [inner EXCEPT ![a].cnt = ArcClone(@)]

\* Arc<Inner>::drop on the backing object at address a: the last share
\* frees the object and its address can be handed out again
DropShare(inner, a) ==
    LET left == ArcDrop(inner[a].cnt)
    IN  [inner EXCEPT ![a] = IF left = 0 THEN NoInner
                             ELSE [cnt |-> left, val |-> @.val]]

\* the payload a wrapper built around the backing object at address a is
PayloadOf(a) == [arc |-> a, val |-> cache.inner[a].val]

\* the calling code allocates a backing object with contents v; the
\* allocator may hand out any address no live object occupies
PayloadNew(a, v) ==
    /\ cache.inner[a].cnt = 0
    /\ cache' = [cache EXCEPT !.inner[a] = [cnt |-> ArcNew, val |-> v],
                              !.user = @ \cup {a}]
    /\ UNCHANGED core
    /\ UNCHANGED offCache

\* the calling code drops its share of the backing object at address a
PayloadDrop(a) ==
    /\ a \in cache.user
    /\ cache' = [cache EXCEPT !.inner = DropShare(@, a), !.user = @ \ {a}]
    /\ UNCHANGED core
    /\ UNCHANGED offCache

\* Wrapper::wrap(self) -> RefCountedPtr<Self::Cef>: implemented with each
\* payload type; every implementation builds the record of function
\* pointers and calls RefCountedPtr::wrap(record, self)
WrapperWrapOp(c, template) == WrapOp(c, template)

\* RefCountedPtrCache::new(wrapper): arc = wrapper.borrow().clone(),
\* ptr = wrapper.wrap()
\* the wrapper passed in holds a share of the backing object at w; it is
\* moved into the composite
CacheNew(w, c, template) ==
    /\ cache.st = "none"
    /\ w \in cache.user
    /\ WrapperWrapOp(c, template)
    /\ cache' = [cache EXCEPT !.st = "init", !.ptr = CompositePtr(c),
                              !.arc = w, !.ret = NullPtr,
                              !.inner = CloneShare(CloneShare(@, w), w),
                              !.object[c] = PayloadOf(w)]
    /\ UNCHANGED offCache

\* get_ptr_or_rewrap(wrapper), Arc::ptr_eq holds: self.ptr.clone(); the
\* wrapper and its share are dropped when the call returns
CacheHit(w) ==
    /\ cache.st = "init"
    /\ w \in cache.user
    /\ ArcPtrEq(cache.arc, w)
    /\ MayAdd(CacheComp)
    /\ CloneOp(CacheComp)
    /\ cache' = [cache EXCEPT !.ret = cache.ptr,
                              !.inner = DropShare(CloneShare(@, w), w),
                              !.given[CacheComp] = @ + 1]
    /\ UNCHANGED offCache

\* get_ptr_or_rewrap(wrapper), Arc::ptr_eq fails: self.arc is replaced by a
\* clone of the wrapper's share and the share it held is dropped;
\* wrapper.wrap() moves the wrapper into composite c; the assignment to
\* self.ptr drops the handle the cache held (release on the old composite,
\* its return value is not used; a freed composite drops its payload);
\* self.ptr.clone() is returned
CacheMiss(w, c, template) ==
    LET old == CacheComp
        prev == strong[old]
        rearc == DropShare(CloneShare(CloneShare(cache.inner, w), w), cache.arc)
    IN  /\ cache.st = "init"
        /\ w \in cache.user
        /\ ~ ArcPtrEq(cache.arc, w)
        /\ NextFresh(c)
        /\ hdr[old].release = "Self::release"
        /\ alloc' = [alloc EXCEPT ![c] = "live",
                                  ![old] = IF ArcFrees(prev) THEN "freed" ELSE @]
        /\ hdr' = [hdr EXCEPT ![c] = InstallHeader(template)]
        /\ strong' = [strong EXCEPT ![c] = TempExpire(ArcClone(ArcNew)),
                                    ![old] = ArcDrop(prev)]
        /\ teardown' = [teardown EXCEPT ![old] = IF ArcFrees(prev) THEN @ + 1 ELSE @]
        /\ handles' = [handles EXCEPT ![c] = 2, ![old] = @ - 1]
        /\ adds' = [adds EXCEPT ![c] = @ + 1]
        /\ rels' = [rels EXCEPT ![old] = @ + 1]
        /\ log' = [log EXCEPT ![c] = Diverged, ![old] = Diverged]
        /\ last' = NoCall
        /\ cache' = [cache EXCEPT
                        !.ptr = CompositePtr(c), !.arc = w,
                        !.ret = CompositePtr(c),
                        !.inner = IF ArcFrees(prev)
                                  THEN DropShare(rearc, cache.object[old].arc)
                                  ELSE rearc,
                        !.object = [@ EXCEPT ![c] = PayloadOf(w),
                                             ![old] = IF ArcFrees(prev)
                                                      THEN NoObject ELSE @],
                        !.given[c] = 1]
        /\ UNCHANGED <<raws, inflight>>
        /\ UNCHANGED offCache

\* a caller drops a handle get_ptr_or_rewrap returned; Drop does not use
\* what release returns, so the drops are taken one at a time
CacheCallerDropBegin(c) ==
    /\ inflight = EmptyBag
    /\ CallerHandles(c) > 0
    /\ ReleaseBeginOp(c, "handle", 0)
    /\ UNCHANGED <<cache, offCache>>

\* release returns; the call that freed the composite dropped its payload
CacheCallerDropEnd(r) ==
    /\ ReleaseEndOp(r)
    /\ cache' = IF ArcFrees(strong[r.c])
                THEN [cache EXCEPT !.inner = DropShare(@, cache.object[r.c].arc),
                                   !.object[r.c] = NoObject,
                                   !.given[r.c] = @ - 1]
                ELSE [cache EXCEPT !.given[r.c] = @ - 1]
    /\ UNCHANGED offCache

NextCache ==
    \/ \E a \in Idents, v \in PayloadValues : PayloadNew(a, v)
    \/ \E a \in Idents : PayloadDrop(a)
    \/ \E w \in Idents, c \in CacheComps, template \in Templates : CacheNew(w, c, template)
    \/ \E w \in Idents : CacheHit(w)
    \/ \E w \in Idents, c \in CacheComps, template \in Templates : CacheMiss(w, c, template)
    \/ \E c \in CacheComps : CacheCallerDropBegin(c)
    \/ \E r \in BagToSet(inflight) : CacheCallerDropEnd(r)

SpecCache == Init /\ [][NextCache]_vars

(* ============================== properties ============================= *)

\* C1: false (0) is returned exactly by the release call that drops the count
\* to zero; every other release call returns true (1), under every
\* interleaving of the calls' count read and their decrement.
C1_ReleaseReturnsFalseExactlyOnLast ==
    [][\A r \in BagToSet(inflight) :
          ReleaseEnd(r) => ((last'.ret = 0) <=> (strong'[r.c] = 0))]_vars

\* C2: the payload is torn down at most once; it has been torn down exactly
\* when the composite is freed and its count is zero; a teardown happens only
\* in a release call that takes the count from 1 to 0.
C2_TeardownState ==
    \A c \in Comps :
        /\ teardown[c] <= 1
        /\ (teardown[c] = 1) <=> (alloc[c] = "freed")
        /\ (alloc[c] = "freed") => strong[c] = 0
        /\ (alloc[c] = "live") => strong[c] >= 1
C2_TeardownStep ==
    \A c \in Comps :
        (teardown'[c] # teardown[c] \/ (alloc[c] = "live" /\ alloc'[c] # "live")) =>
            /\ \E r \in BagToSet(inflight) : r.c = c /\ ReleaseEnd(r)
            /\ strong[c] = 1 /\ strong'[c] = 0
            /\ teardown'[c] = teardown[c] + 1
\* C2: teardown happens exactly once, in the release step taking the count
\* from 1 to 0 (the state part in every state, the step part in every step).
C2_TeardownExactlyOnce == [] C2_TeardownState /\ [][C2_TeardownStep]_vars
C2_Witness ==
    \E c \in Comps : teardown[c] = 1 /\ adds[c] >= 1 /\ rels[c] >= 2

\* C3: after any interleaving of increments and decrements the count is the
\* initial unit plus the increments minus the decrements (N of each leave it
\* where it was), and the composite is freed only when that number is zero.
C3_NetZero ==
    \A c \in Comps :
        alloc[c] # "none" =>
            /\ strong[c] = 1 + adds[c] - rels[c]
            /\ (alloc[c] = "freed") <=> (rels[c] = adds[c] + 1)
C3_Witness ==
    \E c \in Comps :
        /\ alloc[c] = "live" /\ strong[c] = 1
        /\ adds[c] = 2 /\ rels[c] = 2

\* C4: the count of a composite equals its live handles plus the units held
\* as raw pointers.
C4_CountIsHandlesPlusRaws ==
    \A c \in Comps :
        alloc[c] # "none" => strong[c] = handles[c] + raws[c]
C4_Witness ==
    \E c \in Comps : handles[c] = 2 /\ raws[c] = 1 /\ strong[c] = 3

\* C5: a composite on which a unit exists (a live handle or a raw pointer
\* carrying a unit) is allocated.
C5_UnitKeepsAllocated ==
    \A c \in Comps : handles[c] + raws[c] > 0 => alloc[c] = "live"
C5_Witness ==
    \E c \in Comps :
        /\ Busy(c) = 2 /\ rels[c] >= 1
        /\ handles[c] >= 1 /\ raws[c] >= 1

\* C6: in the stress run the composite is not freed while workers run, the
\* count after the workers finished equals the count before the run, and the
\* run ends with the composite freed exactly once.
C6_StressState ==
    /\ stress.stage \in {"setup", "run"} =>
           alloc[StressComp] = "live" /\ teardown[StressComp] = 0
    /\ (stress.stage = "run" /\ WorkersDone) => strong[StressComp] = stress.base
    /\ teardown[StressComp] <= 1
    /\ stress.stage = "done" =>
           /\ alloc[StressComp] = "freed" /\ teardown[StressComp] = 1
           /\ strong[StressComp] = 0 /\ handles[StressComp] = 0
\* C6: the stress run keeps C6_StressState in every state and ends, for
\* good, with the composite freed exactly once.
C6_Stress == [] C6_StressState /\ <>[] (stress.stage = "done")
C6_Witness ==
    /\ stress.stage = "final" /\ stress.base = 2
    /\ WorkersDone
    /\ strong[StressComp] = 1 /\ inflight # EmptyBag

\* C7: wrap gives count 1; two increments give count 3; three decrements
\* return true, true, false; the composite is freed by the third and the
\* teardown counter is 0 before it and 1 after it.
OpOf(e) == IF e \in {"release_true", "release_false"} THEN "release" ELSE e
OpsOf(l) == [i \in DOMAIN l |-> OpOf(l[i])]
ScenarioOps == <<"new", "add_ref", "add_ref", "release", "release", "release">>
\* C7: the scenario new, add_ref, add_ref, release, release, release run as
\* non-overlapping calls on the raw pointer.
C7_Scenario ==
    \A c \in Comps :
        /\ log[c] = <<"new">> => strong[c] = 1
        /\ log[c] = <<"new", "add_ref", "add_ref">> => strong[c] = 3
        /\ (log[c] # Diverged /\ Len(log[c]) \in 4..5
              /\ OpsOf(log[c]) = SubSeq(ScenarioOps, 1, Len(log[c]))) =>
               /\ \A i \in 4..Len(log[c]) : log[c][i] = "release_true"
               /\ alloc[c] = "live" /\ teardown[c] = 0
        /\ (log[c] # Diverged /\ OpsOf(log[c]) = ScenarioOps) =>
               /\ log[c] = <<"new", "add_ref", "add_ref",
                             "release_true", "release_true", "release_false">>
               /\ alloc[c] = "freed" /\ teardown[c] = 1
C7_Witness ==
    \E c \in Comps : log[c] # Diverged /\ OpsOf(log[c]) = ScenarioOps

\* C8: RefCounted::new and RefCountedPtr::wrap, applied to any record
\* template, give a composite with count 1 whose header holds the four entry
\* points and the record size, and issue exactly one unit for it.
C8_WrapStep ==
    \A c \in Comps, template \in Templates :
        (alloc[c] = "none" /\ (New(c, template) \/ Wrap(c, template))) =>
            /\ alloc'[c] = "live" /\ strong'[c] = 1
            /\ hdr'[c] = [size |-> "size_of_C",
                          add_ref |-> "Self::add_ref",
                          release |-> "Self::release",
                          has_one_ref |-> "Self::has_one_ref",
                          has_at_least_one_ref |-> "Self::has_at_least_one_ref"]
            /\ handles'[c] + raws'[c] = 1
            /\ Wrap(c, template) => handles'[c] = 1
\* C8: every new / wrap step satisfies C8_WrapStep.
C8_WrapInstallsHeader == [][C8_WrapStep]_vars
C8_Witness ==
    \E c \in Comps :
        /\ alloc[c] = "live" /\ adds[c] = 0 /\ rels[c] = 0 /\ inflight = EmptyBag
        /\ handles[c] = 1 /\ hdr[c].size = "size_of_C"

\* C9: on a live composite with count n, has_one_ref returns true iff n = 1
\* and has_at_least_one_ref returns true iff n >= 1, hence always.
C9_QueryStep ==
    \A c \in Comps :
        /\ HasOneRef(c) =>
               /\ strong[c] >= 1
               /\ (last'.ret = 1) <=> (strong[c] = 1)
               /\ last'.ret \in {0, 1}
        /\ HasAtLeastOneRef(c) =>
               /\ strong[c] >= 1
               /\ last'.ret = 1
\* C9: every has_one_ref / has_at_least_one_ref step satisfies C9_QueryStep.
C9_QueriesReportCount == [][C9_QueryStep]_vars
C9_Witness ==
    \E c \in Comps :
        last = [op |-> "has_one_ref", ret |-> 0] /\ strong[c] = 2 /\ alloc[c] = "live"

\* C10: has_one_ref, has_at_least_one_ref, wrapper, as_ptr and deref change
\* neither the count, nor the handles and raw units, nor the allocation.
C10_ReadOnlyStep ==
    \A c \in Comps :
        (HasOneRef(c) \/ HasAtLeastOneRef(c) \/ Wrapper(c) \/ AsPtr(c) \/ Deref(c)) =>
            UNCHANGED <<strong, handles, raws, alloc, teardown, hdr, inflight>>
\* C10: every step of a read-only operation satisfies C10_ReadOnlyStep.
C10_ReadOnly == [][C10_ReadOnlyStep]_vars
C10_Witness ==
    \E c \in Comps :
        /\ last = [op |-> "has_at_least_one_ref", ret |-> 1]
        /\ strong[c] = 3 /\ handles[c] >= 1 /\ raws[c] >= 1

\* C11: no step of new, wrap, add_ref, has_one_ref, has_at_least_one_ref,
\* wrapper, clone, into_raw, as_ptr, deref or a from_ptr constructor takes a
\* live composite out of the live state or tears its payload down; a live
\* composite leaves the live state only in the second half of release; and
\* add_ref raises the count by exactly one without any decrement.
C11_NonFreeingStep ==
    \E d \in Comps :
        \/ \E template \in Templates : New(d, template) \/ Wrap(d, template)
        \/ AddRef(d) \/ HasOneRef(d) \/ HasAtLeastOneRef(d) \/ Wrapper(d)
        \/ Clone(d) \/ IntoRaw(d) \/ AsPtr(d) \/ Deref(d)
        \/ FromPtrAddRef(d) \/ FromPtr(d) \/ FromPtrUnchecked(d)
C11_Step ==
    \A c \in Comps :
        alloc[c] = "live" =>
            /\ (alloc'[c] = "live" /\ teardown'[c] = teardown[c]) \/ ~ C11_NonFreeingStep
            /\ alloc'[c] # "live" => \E r \in BagToSet(inflight) : r.c = c /\ ReleaseEnd(r)
            /\ \/ /\ strong'[c] = strong[c] + 1
                  /\ rels'[c] = rels[c] /\ inflight' = inflight
               \/ ~ AddRef(c)
\* C11: every step satisfies C11_Step.
C11_OnlyDecrementFrees == [][C11_Step]_vars
C11_Witness ==
    \E c \in Comps :
        /\ alloc[c] = "live" /\ adds[c] = 2 /\ rels[c] = 0
        /\ strong[c] = 3 /\ raws[c] = 3

\* C12: a handle built by from_ptr or from_ptr_unchecked from the pointer
\* that into_raw returned for a handle built by wrap, with nothing else done
\* to the composite, holds the address wrap's handle held, the address of the
\* composite wrap allocated; the payload borrowed through it is that
\* composite's payload field; the composite is live with count 1.
C12_TripOf(g) ==
    LET s == hv.slot[g]
    IN  /\ s.st = "live" /\ s.via \in {"from_ptr", "from_ptr_unchecked"}
        /\ s.src \in HandleIds
        /\ hv.slot[s.src].via = "wrap"
        /\ hv.slot[s.src].cef.blk \in Comps
        /\ adds[hv.slot[s.src].cef.blk] = 0 /\ rels[hv.slot[s.src].cef.blk] = 0
\* C12: every handle that closes the round trip wrap, into_raw, from_ptr
\* holds the address of wrap's composite, whose payload it borrows and whose
\* count is 1.
C12_RoundTrip ==
    \A g \in HandleIds :
        C12_TripOf(g) =>
            LET c == hv.slot[hv.slot[g].src].cef.blk
            IN  /\ hv.slot[g].cef = hv.slot[hv.slot[g].src].cef
                /\ hv.slot[g].cef = [blk |-> c, field |-> "cefobj"]
                /\ alloc[c] = "live" /\ strong[c] = 1
                /\ handles[c] = 1 /\ raws[c] = 0
                /\ (hv.res.op = "wrapper" /\ hv.res.h = g) =>
                       hv.res.val = [blk |-> c, field |-> "object"]
C12_Witness ==
    \E g \in HandleIds :
        /\ C12_TripOf(g)
        /\ hv.slot[g].via = "from_ptr_unchecked"
        /\ hv.res.op = "wrapper" /\ hv.res.h = g

\* C13: into_raw leaves the count and the number of releases as they were,
\* returns the pointer the handle held and leaves the handle consumed; a
\* consumed handle stays consumed and no release is ever in flight for it;
\* every handle value is live or consumed until it is dropped, every live
\* handle accounts for exactly one unit of its composite, and the completed
\* releases are exactly those of dropped handles.
C13_SlotsOn(c, st) ==
    Cardinality({h \in HandleIds : hv.slot[h].st = st /\ hv.slot[h].cef.blk = c})
C13_State ==
    /\ \A h \in HandleIds :
           /\ hv.slot[h].st \in {"unused", "live", "consumed", "dropped"}
           /\ hv.slot[h].st = "consumed" =>
                  \A r \in BagToSet(inflight) : r.who # h
    /\ \A c \in Comps :
           /\ handles[c] = C13_SlotsOn(c, "live") + InFlightOn(c, "handle")
           /\ rels[c] = C13_SlotsOn(c, "dropped") - InFlightOn(c, "handle")
           /\ raws[c] = Cardinality({x \in hv.held : x.ptr.blk = c})
C13_Step ==
    \A h \in HandleIds :
        /\ (hv.slot[h].st = "live" /\ HandleIntoRaw(h)) =>
               /\ strong' = strong /\ rels' = rels /\ adds' = adds
               /\ inflight' = inflight /\ alloc' = alloc
               /\ hv'.res.val = hv.slot[h].cef
               /\ [ptr |-> hv.slot[h].cef, by |-> h] \in hv'.held
               /\ hv'.slot[h] = [hv.slot[h] EXCEPT !.st = "consumed"]
        /\ hv.slot[h].st = "consumed" => hv'.slot[h] = hv.slot[h]
\* C13: C13_State in every state and C13_Step in every step.
C13_IntoRawConsumes == [] C13_State /\ [][C13_Step]_vars
C13_Witness ==
    \E h \in HandleIds, g \in HandleIds :
        /\ hv.slot[h].st = "consumed"
        /\ hv.slot[g].st = "dropped" /\ hv.slot[g].src = h
        /\ hv.slot[g].via = "from_ptr"
        /\ rels[hv.slot[h].cef.blk] = 1 /\ alloc[hv.slot[h].cef.blk] = "freed"

\* C14: clone calls add_ref once (one more completed add_ref, count + 1, no
\* release) and yields a new live handle over the pointer of the cloned one,
\* which stays as it was; drop calls release once (count - 1 and one more
\* completed release when it returns); a dropped handle is never touched
\* again and at most one release is ever in flight for it.
C14_Step ==
    \A h \in HandleIds :
        /\ hv.slot[h].st = "live" =>
               \A g \in HandleIds :
                   HandleClone(h, g) =>
                       /\ adds'[CompOf(h)] = adds[CompOf(h)] + 1
                       /\ strong'[CompOf(h)] = strong[CompOf(h)] + 1
                       /\ rels' = rels /\ inflight' = inflight
                       /\ hv'.slot[g].st = "live"
                       /\ hv'.slot[g].cef = hv.slot[h].cef
                       /\ hv'.slot[h] = hv.slot[h]
        /\ (hv.slot[h].st = "live" /\ HandleDropBegin(h)) =>
               /\ hv'.slot[h].st = "dropped"
               /\ adds' = adds
               /\ Cardinality({r \in BagToSet(inflight') : r.who = h}) = 1
               /\ \A r \in BagToSet(inflight') : r.who = h => CopiesIn(r, inflight') = 1
        /\ (hv.slot[h].st = "dropped" /\ HandleDropEnd(h)) =>
               /\ rels'[CompOf(h)] = rels[CompOf(h)] + 1
               /\ strong'[CompOf(h)] = strong[CompOf(h)] - 1
               /\ adds' = adds
               /\ \A r \in BagToSet(inflight') : r.who # h
        /\ hv.slot[h].st = "dropped" =>
               /\ hv'.slot[h] = hv.slot[h]
               /\ \A r \in BagToSet(inflight') : r.who = h => BagIn(r, inflight)
               /\ \A g \in HandleIds :
                      hv.slot[g].st = "unused" => hv'.slot[g].src # h
\* C14: every step satisfies C14_Step.
C14_CloneAndDrop == [][C14_Step]_vars
C14_Witness ==
    \E h \in HandleIds, g \in HandleIds :
        /\ hv.slot[g].via = "clone" /\ hv.slot[g].src = h
        /\ hv.slot[g].st = "dropped" /\ hv.slot[h].st = "live"
        /\ inflight = EmptyBag
        /\ strong[CompOf(h)] = 1 /\ adds[CompOf(h)] = 1 /\ rels[CompOf(h)] = 1

\* C15: from_ptr_add_ref on a non-null pointer completes one add_ref (count
\* + 1) and issues a live handle over that pointer in the same call, taking
\* no unit from the caller: the raw pointers the caller holds and the other
\* handles are as before.  from_ptr and from_ptr_unchecked on a non-null
\* pointer issue the handle with no add_ref and the count unchanged.
C15_Step ==
    \A g \in HandleIds :
        hv.slot[g].st = "unused" =>
            /\ \A p \in BorrowedPtrs :
                   HandleFromPtrAddRef(g, p) =>
                       /\ adds'[p.blk] = adds[p.blk] + 1
                       /\ strong'[p.blk] = strong[p.blk] + 1
                       /\ handles'[p.blk] = handles[p.blk] + 1
                       /\ rels' = rels /\ raws' = raws /\ hv'.held = hv.held
                       /\ \A k \in HandleIds : k # g => hv'.slot[k] = hv.slot[k]
                       /\ hv'.slot[g].st = "live" /\ hv'.slot[g].cef = p
                       /\ hv'.res.some
            /\ \A x \in hv.held :
                   (HandleFromPtr(g, x) \/ HandleFromPtrUnchecked(g, x)) =>
                       /\ adds' = adds /\ rels' = rels /\ strong' = strong
                       /\ hv'.slot[g].st = "live" /\ hv'.slot[g].cef = x.ptr
                       /\ hv'.res.some
\* C15: every step satisfies C15_Step.
C15_AddRefThenHandle == [][C15_Step]_vars
C15_Witness ==
    \E g \in HandleIds, k \in HandleIds :
        /\ hv.slot[g].st = "live" /\ hv.slot[g].via = "from_ptr_add_ref"
        /\ hv.slot[k].st = "live" /\ hv.slot[k].via = "from_ptr"
        /\ hv.slot[k].cef = hv.slot[g].cef
        /\ strong[CompOf(g)] = 2 /\ adds[CompOf(g)] = 1

\* C16: from_ptr and from_ptr_add_ref given the null pointer return None:
\* no handle is issued, no add_ref or release is called, no count, header or
\* allocation changes.
C16_Step ==
    \A g \in HandleIds :
        (hv.slot[g].st = "unused"
           /\ (HandleFromPtr(g, NullUnit) \/ HandleFromPtrAddRef(g, NullPtr))) =>
            /\ ~ hv'.res.some
            /\ hv'.slot = hv.slot /\ hv'.held = hv.held
            /\ UNCHANGED <<alloc, strong, hdr, teardown, handles, raws, inflight,
                           adds, rels>>
\* C16: every step satisfies C16_Step.
C16_NullGivesNone == [][C16_Step]_vars
C16_Witness ==
    /\ hv.res = [op |-> "from_ptr_add_ref", h |-> 0, some |-> FALSE, val |-> NullPtr]
    /\ \E h \in HandleIds : hv.slot[h].st = "live" /\ strong[CompOf(h)] = 2

\* C17: every live handle holds a non-null pointer to a record of a live
\* object (a live composite, or a foreign browser whose count is at least
\* one), also when it was built by BrowserHost::get_browser or
\* BrowserHost::create_browser_sync from what the foreign call returned.
C17_HandlesNonNull ==
    \A h \in HandleIds :
        hv.slot[h].st = "live" =>
            /\ hv.slot[h].cef # NullPtr
            /\ \/ CompOf(h) \in Comps /\ alloc[CompOf(h)] = "live"
               \/ (0 - CompOf(h)) \in ForeignObjs /\ host.refs[0 - CompOf(h)] >= 1

\* C18: get_ptr_or_rewrap called with the identity the cache recorded
\* returns a handle over the pointer of the cached handle, completes one
\* add_ref on the cached composite (count and handles + 1), allocates and
\* frees nothing and leaves the cache's handle and identity as they were; if
\* a call was made before, its handle was over the same pointer.
C18_Step ==
    \A w \in Idents :
        (cache.st = "init" /\ cache.arc = w
           /\ (CacheHit(w)
                 \/ \E c \in CacheComps, template \in Templates : CacheMiss(w, c, template))) =>
            /\ cache'.ret = cache.ptr
            /\ cache'.ptr = cache.ptr /\ cache'.arc = cache.arc
            /\ strong'[CacheComp] = strong[CacheComp] + 1
            /\ adds'[CacheComp] = adds[CacheComp] + 1
            /\ handles'[CacheComp] = handles[CacheComp] + 1
            /\ alloc' = alloc /\ rels' = rels
            /\ cache.ret # NullPtr => cache'.ret = cache.ret
\* C18: every step satisfies C18_Step.
C18_HitClonesCached == [][C18_Step]_vars
C18_Witness ==
    /\ cache.st = "init" /\ cache.ret = cache.ptr
    /\ adds[CacheComp] = 2 /\ handles[CacheComp] = 3 /\ strong[CacheComp] = 3
    /\ \A c \in CacheComps : c # CacheComp => alloc[c] = "none"

\* C19: get_ptr_or_rewrap called with another identity than the recorded one
\* allocates exactly one composite, makes it the cache's handle with the new
\* identity and returns a handle over it; on the old composite exactly one
\* release is completed and the count drops by one; the old composite is
\* freed in that call iff the cache's handle was the only one, and a
\* composite is live exactly as long as a handle on it is outstanding.
C19_State ==
    \A c \in CacheComps :
        alloc[c] # "none" =>
            /\ (alloc[c] = "live") <=> (handles[c] >= 1)
            /\ strong[c] = handles[c]
C19_Step ==
    \A w \in Idents :
        (cache.st = "init" /\ cache.arc # w) =>
            /\ ~ CacheHit(w)
            /\ \A c \in CacheComps :
                   (alloc[c] = "none"
                      /\ \E template \in Templates : CacheMiss(w, c, template)) =>
                       /\ alloc'[c] = "live" /\ strong'[c] >= 1
                       /\ \A d \in CacheComps \ {c, CacheComp} :
                              alloc'[d] = alloc[d] /\ strong'[d] = strong[d]
                       /\ cache'.ptr = [blk |-> c, field |-> "cefobj"]
                       /\ cache'.arc = w
                       /\ cache'.ret = cache'.ptr
                       /\ rels'[CacheComp] = rels[CacheComp] + 1
                       /\ strong'[CacheComp] = strong[CacheComp] - 1
                       /\ (alloc'[CacheComp] = "freed") <=> (handles[CacheComp] = 1)
                       /\ teardown'[CacheComp] =
                              teardown[CacheComp] + (IF handles[CacheComp] = 1 THEN 1 ELSE 0)
\* C19: C19_State in every state and C19_Step in every step.
C19_MissRewraps == [] C19_State /\ [][C19_Step]_vars
C19_Witness ==
    \E old \in CacheComps :
        /\ cache.st = "init" /\ old # CacheComp
        /\ alloc[old] = "live" /\ handles[old] = 1 /\ rels[old] = 1
        /\ inflight = EmptyBag
        /\ alloc[CacheComp] = "live" /\ strong[CacheComp] = 2

\* C20 as stated: a get_ptr_or_rewrap call with another identity, made while
\* a caller holds a handle on the cached composite, leaves the count of that
\* composite unchanged.
C20_MissKeepsOldCount ==
    [][\A w \in Idents, c \in CacheComps :
          (cache.st = "init" /\ handles[CacheComp] >= 2 /\ alloc[c] = "none"
             /\ \E template \in Templates : CacheMiss(w, c, template)) =>
              strong'[CacheComp] = strong[CacheComp]]_vars

\* C20: a get_ptr_or_rewrap call with another identity, made while callers
\* hold handles on the cached composite, lowers that composite's count by
\* exactly one, the unit of the cache's own handle: the composite stays live
\* and its count is then the number of handles callers hold; each of those
\* units is released only by the drop of a caller's handle, one per drop.
C20_Step ==
    /\ \A w \in Idents, c \in CacheComps :
           (cache.st = "init" /\ handles[CacheComp] >= 2 /\ alloc[c] = "none"
              /\ \E template \in Templates : CacheMiss(w, c, template)) =>
               /\ strong'[CacheComp] = strong[CacheComp] - 1
               /\ rels'[CacheComp] = rels[CacheComp] + 1
               /\ handles'[CacheComp] = handles[CacheComp] - 1
               /\ alloc'[CacheComp] = "live"
               /\ strong'[CacheComp] = handles[CacheComp] - 1
    /\ \A c \in CacheComps :
           (alloc[c] = "live" /\ (cache.st = "none" \/ c # CacheComp)
              /\ strong'[c] # strong[c]) =>
               /\ \E r \in BagToSet(inflight) : r.c = c /\ CacheCallerDropEnd(r)
               /\ strong'[c] = strong[c] - 1
\* C20: every step satisfies C20_Step.
C20_MissReleasesCacheUnit == [][C20_Step]_vars
C20_Witness ==
    \E old \in CacheComps :
        /\ cache.st = "init" /\ old # CacheComp
        /\ alloc[old] = "live" /\ handles[old] = 2 /\ strong[old] = 2
        /\ adds[old] = 2 /\ rels[old] = 1

\* a call get_ptr_or_rewrap(wrapper) whose wrapper is backed by the object at w
C21_Call(w) ==
    \/ CacheHit(w)
    \/ \E c \in CacheComps, template \in Templates : CacheMiss(w, c, template)
\* the call returned the handle the cache already held: no composite built
C21_WasHit ==
    /\ cache'.ptr = cache.ptr
    /\ cache'.ret = cache.ptr
    /\ \A c \in CacheComps : alloc[c] = "none" => alloc'[c] = "none"
C21_Step ==
    \A w \in Idents :
        \/ cache.st # "init"
        \/ /\ (C21_WasHit <=> w = cache.arc)
           /\ (w # cache.arc /\ cache.inner[w].val = cache.object[CacheComp].val)
                 => cache'.ptr # cache.ptr
        \/ ~ C21_Call(w)
\* C21: a get_ptr_or_rewrap call returns the handle the cache holds, building
\* no composite, exactly when its payload's backing object is the one whose
\* identity was recorded at the last wrap; a payload with the same contents
\* as the cached one but another backing object is wrapped afresh.
C21_HitIffSameIdentity == [][C21_Step]_vars
C21_Witness ==
    \E c, d \in CacheComps :
        /\ cache.st = "init" /\ cache.ptr = CompositePtr(d) /\ cache.ret = cache.ptr
        /\ c # d /\ alloc[c] = "live"
        /\ cache.object[c].val = cache.object[d].val
        /\ cache.object[c].arc # cache.object[d].arc

C29_State ==
    cache.st = "init" =>
        /\ alloc[CacheComp] = "live"
        /\ teardown[CacheComp] = 0
        /\ strong[CacheComp] = 1 + cache.given[CacheComp]
C29_Step ==
    /\ \A r \in BagToSet(inflight) :
          \/ r.c # CacheComp
          \/ alloc'[r.c] = "live" /\ strong'[r.c] >= 1
          \/ ~ CacheCallerDropEnd(r)
    /\ \A w \in Idents, c \in CacheComps, template \in Templates :
          \/ alloc[c] # "none"
          \/ strong'[c] = 2 /\ cache'.given[c] = 1
          \/ ~ CacheMiss(w, c, template)
\* C29: once the cache exists its handle points to a live composite whose
\* count is 1, the cache's own unit, plus the number of handles returned for
\* it that callers still hold; a caller's drop never frees the cached
\* composite, and a call that wraps afresh returns with the new composite's
\* count at 2.
C29_CacheHoldsOneUnit == [] C29_State /\ [][C29_Step]_vars
C29_Witness ==
    /\ cache.st = "init" /\ CacheComp > 1
    /\ rels[CacheComp] >= 2 /\ cache.given[CacheComp] = 0
    /\ strong[CacheComp] = 1 /\ alloc[CacheComp] = "live"

\* shares of the backing object at a: the calling code's, the cache's and
\* one per composite that carries a payload backed by it
C30_Shares(a) ==
    (IF a \in cache.user THEN 1 ELSE 0)
    + (IF cache.st = "init" /\ cache.arc = a THEN 1 ELSE 0)
    + Cardinality({c \in CacheComps : cache.object[c].arc = a})
C30_State ==
    /\ \A a \in Idents : cache.inner[a].cnt = C30_Shares(a)
    /\ cache.st = "init" =>
         /\ cache.object[CacheComp] = PayloadOf(cache.arc)
         /\ cache.inner[cache.arc].cnt >= 2
C30_Step ==
    /\ \A w \in Idents :
          \/ cache.st # "init"
          \/ /\ cache'.ret.blk \in CacheComps
             /\ cache.object[cache'.ret.blk] = PayloadOf(w)
          \/ ~ CacheHit(w)
    /\ \A a \in Idents, v \in PayloadValues :
          \/ cache.st # "init"
          \/ a # cache.arc
          \/ ~ PayloadNew(a, v)
\* C30: once the cache exists, arc is the address of the backing object of
\* the payload inside the composite its handle points to, and the cache
\* holds a share of that object next to the payload's own, so no other
\* object is allocated at that address while it is cached; a call that
\* returns the cached handle returns a composite carrying the payload that
\* was requested.
C30_TokenIsCachedPayload == [] C30_State /\ [][C30_Step]_vars
C30_Witness ==
    \E a \in Idents :
        /\ cache.st = "init" /\ CacheComp > 1 /\ cache.ret = cache.ptr
        /\ adds[CacheComp] >= 2
        /\ a # cache.arc /\ a \in cache.user
        /\ \A c \in CacheComps : cache.object[c].arc # a
        /\ cache.arc \notin cache.user

\* handle h points to a foreign record whose header slot is null
C22_SlotAbsent(h, slot) ==
    /\ Live(h) /\ hv.slot[h].cef # NullPtr
    /\ ForeignOf(h) \in ForeignObjs
    /\ host.base[ForeignOf(h)][slot] = "null"
C22_Step ==
    /\ \A h, g \in HandleIds :
          (C22_SlotAbsent(h, "add_ref") /\ BrowserClone(h, g))
              => host'.fault = "none" /\ host'.refs = host.refs
    /\ \A h \in HandleIds :
          (C22_SlotAbsent(h, "release") /\ BrowserDrop(h))
              => host'.fault = "none" /\ host'.refs = host.refs
    /\ \A g \in HandleIds, f \in ForeignObjs :
          (host.refs[f] > 0 /\ host.base[f].add_ref = "null"
           /\ BrowserFromPtrAddRef(g, ForeignPtr(f)))
              => host'.fault = "none" /\ host'.refs = host.refs
\* C22: clone, from_ptr_add_ref and drop on a record whose header slot
\* (add_ref for the first two, release for drop) is null do nothing to the
\* record's count and do not fail or panic.
C22_AbsentHeaderSlotIsNoOp == [][C22_Step]_vars

\* the call just made went through the table of the BrowserHost
C23_Forwarded ==
    \/ \E m \in CheckedMethods, ret \in ForeignReturns : HostForward(m, ret)
    \/ \E g \in HandleIds, isnull \in BOOLEAN,
          out \in {"handle", "null_handle", "abort"} : GetBrowser(g, isnull, out)
    \/ \E g \in HandleIds, f \in ForeignObjs, isnull \in BOOLEAN,
          base \in ForeignBases : GetRequestContext(g, f, isnull, base)
C23_Step ==
    (host.st = "open" /\ C23_Forwarded) =>
        /\ host'.fault = "none"
        /\ \A h \in HandleIds : hv'.slot[h].st = "live" => hv'.slot[h].cef # NullPtr
        /\ host.slots = "null" => ~ host'.out.called
\* C23: a BrowserHost method that forwards through a slot of the table
\* never fails or panics, whether the slot is null or the foreign function
\* returns a null object, never produces a handle over null, and makes no
\* foreign call when its slot is null.
C23_ForwardersNeverFail == [][C23_Step]_vars

\* the neutral value of each Extension method
C24_Neutral(m) ==
    CASE m = "get_identifier" -> "empty string"
      [] m = "get_path" -> "empty string"
      [] m = "get_manifest" -> "empty map"
      [] m = "get_loader_context" -> "None"
      [] m = "is_loaded" -> "false"
      [] m = "unload" -> "unit"
C24_Step ==
    \A m \in ExtMethods, ret \in ForeignReturns :
        (ext.st = "open" /\ ExtCall(m, ret)) =>
            /\ ext.slots[m] = "null" =>
                   ext'.out.calls = 0 /\ ext'.out.val = C24_Neutral(m)
            /\ ext.slots[m] # "null" =>
                   ext'.out.calls = 1 /\ ext'.out.on = ext.cef
            /\ ext'.refs = ext.refs /\ ext'.cef = ext.cef
            /\ UNCHANGED core
\* C24: an Extension method whose slot is null makes no foreign call and
\* returns its neutral value (empty string, empty map, None, false, nothing);
\* with the slot set it makes one foreign call, on the handle's own pointer;
\* either way the count of the record and the handle are left as they were.
C24_ExtensionForwards == [][C24_Step]_vars
C24_Witness ==
    /\ ext.st = "open" /\ ext.refs = 2
    /\ ext.slots["get_manifest"] = "foreign" /\ ext.slots["unload"] = "null"
    /\ ext.out.m = "get_manifest" /\ ext.out.calls = 1 /\ ext.out.val = "empty map"

C25_State == \A c \in Comps : teardown[c] <= 1
C25_Step ==
    /\ \A c \in Comps :
          DownloadImage("foreign", c, ZeroedHeader) =>
              /\ cb'.comp = c /\ cb'.object = "some"
              /\ alloc'[c] = "live" /\ strong'[c] = 1
              /\ raws'[c] = 1 /\ handles'[c] = 0
    /\ \A image \in {NullPtr} \cup {ForeignPtr(f) : f \in ForeignObjs} :
          (cb.st = "sent" /\ cb.calls = 0 /\ strong[cb.comp] = 1
           /\ DownloadImageFinished(FALSE, "abort", image)) =>
              /\ cb'.runs = 1
              /\ strong'[cb.comp] = 0 /\ alloc'[cb.comp] = "freed"
              /\ teardown'[cb.comp] = 1 /\ cb'.object = "dropped"
\* C25: download_image with its slot set wraps the closure as the payload
\* of a new composite with count 1 and hands the raw pointer to the foreign
\* side, keeping no handle; when the foreign side, holding just that unit,
\* invokes download_image_finished and the closure returns, the closure has
\* run once and the release at the end of the entry point takes the count
\* to zero and frees the composite, whose payload is torn down once.
C25_OneShotFlow == [] C25_State /\ [][C25_Step]_vars
C25_Witness ==
    /\ cb.st = "sent" /\ cb.fault = "none"
    /\ cb.calls = 1 /\ cb.runs = 1 /\ cb.object = "dropped"
    /\ alloc[cb.comp] = "freed" /\ adds[cb.comp] = 0 /\ rels[cb.comp] = 1

\* C26: a panic raised inside a callback entry point (here the closure run
\* by download_image_finished) never goes on as an unwind into the frames
\* of the foreign caller.
C26_NoUnwindIntoForeign == cb.fault # "unwind"

\* C27: the decrements applied to the callback composite, by
\* download_image_finished and by the foreign side releasing the unit it
\* was handed, never outnumber the units created (1 plus the increments),
\* and none is applied to a composite that was freed already.
C27_DecrementsWithinUnits ==
    /\ cb.fault # "use_after_free"
    /\ cb.st = "sent" => rels[cb.comp] <= 1 + adds[cb.comp]

C28_State == cb.runs <= 1
C28_Step ==
    \A panics \in BOOLEAN, out \in PanicOutcomes,
       image \in {NullPtr} \cup {ForeignPtr(f) : f \in ForeignObjs} :
        (cb.st = "sent" /\ cb.calls >= 1
         /\ DownloadImageFinished(panics, out, image)) =>
            /\ cb'.runs = cb.runs /\ cb'.image = cb.image
            /\ cb'.fault = "none"
\* C28: the closure of a callback composite runs at most once: an
\* invocation of download_image_finished after the first, on a composite
\* that is still live, finds the payload empty and runs no closure.
C28_ClosureRunsOnce == [] C28_State /\ [][C28_Step]_vars
C28_Witness ==
    /\ cb.st = "sent" /\ cb.calls = 2 /\ cb.runs = 1
    /\ alloc[cb.comp] = "live" /\ cb.object = "none"

C31_State ==
    /\ cb.st = "unsupported" =>
         /\ cb.comp = 0 /\ cb.object = "none"
         /\ cb.runs = 0 /\ cb.calls = 0 /\ cb.foreign.calls = 0
    /\ cb.st = "sent" =>
         /\ cb.foreign = [calls |-> 1,
                          arg |-> [blk |-> cb.comp, field |-> "cefobj"]]
         /\ handles[cb.comp] = 0
C31_Step ==
    \A c \in Comps :
        /\ DownloadImage("null", c, ZeroedHeader) =>
              /\ UNCHANGED <<alloc, strong, handles, raws>>
              /\ cb'.st = "unsupported"
        /\ DownloadImage("foreign", c, ZeroedHeader) =>
              /\ alloc[c] = "none" /\ alloc'[c] = "live"
              /\ \A d \in AllComps \ {c} : alloc'[d] = alloc[d]
              /\ strong'[c] = 1 /\ raws'[c] = 1 /\ handles'[c] = 0
              /\ cb'.foreign.calls = 1
              /\ cb'.foreign.arg = [blk |-> c, field |-> "cefobj"]
              /\ cb'.runs = 0
\* C31: download_image with its slot null builds no composite, makes no
\* foreign call and its closure never runs; with the slot set it builds
\* one composite with count 1, makes one foreign call whose callback
\* argument is the raw pointer of that composite, and keeps no handle on
\* it: the one unit is the one handed to the foreign side.
C31_DownloadImage == [] C31_State /\ [][C31_Step]_vars
C31_Witness ==
    /\ cb.st = "unsupported" /\ cb.fault = "none"
    /\ \E c \in Comps : alloc[c] = "freed" /\ teardown[c] = 1 /\ adds[c] >= 1
====
